---- MODULE Spec2Model ----
(***************************************************************************)
(* A model of moviebot's rule-based dialogue policy                        *)
(* (moviebot/dialogue_manager/dialogue_policy.py).                         *)
(*                                                                         *)
(* The dialogue state snapshot handed to the policy is the state of the    *)
(* model; the operations are DialoguePolicy.next_action, the handlers      *)
(* elicit and inform_or_recommend called on their own, and                 *)
(* _generate_examples.  Python strings that the code splits, strips or     *)
(* quotes are sequences of one-character strings; slot names and intents   *)
(* are opaque and stay TLA+ strings.  random.shuffle and random.sample are *)
(* nondeterministic choices: every handler yields the SET of its possible  *)
(* outcomes.  A raised exception is an outcome whose exc field names it.   *)
(***************************************************************************)
EXTENDS Integers, Sequences, FiniteSets, TLC

VARIABLES
    isBot,                  \* self.isBot
    new_user,               \* self.new_user
    last_user_dacts,        \* dialogue_state.last_user_dacts
    last_agent_dacts,       \* dialogue_state.last_agent_dacts
    agent_requestable,      \* dialogue_state.agent_requestable
    frame_CIN,              \* dialogue_state.frame_CIN
    slot_left_unasked,      \* dialogue_state.slot_left_unasked
    database_result,        \* dialogue_state.database_result
    item_in_focus,          \* dialogue_state.item_in_focus (<<>> is None)
    agent_req_filled,       \* dialogue_state.agent_req_filled
    agent_should_make_offer,\* dialogue_state.agent_should_make_offer
    agent_offer_state,      \* the list dialogue_state._agent_offer_state() spells
    called,                 \* the operation that ran last ("none" before any)
    restart,                \* the restart argument of the last next_action call
    slots,                  \* next_action's local list `slots`
    CIN_slots,              \* elicit's local list `CIN_slots`
    agent_dacts,            \* what the last call returned or raised
    example_slot,           \* the slot argument of the last _generate_examples call
    examples                \* what the last _generate_examples call returned

vars == << isBot, new_user, last_user_dacts, last_agent_dacts, agent_requestable,
           frame_CIN, slot_left_unasked, database_result, item_in_focus,
           agent_req_filled, agent_should_make_offer, agent_offer_state,
           called, restart, slots, CIN_slots, agent_dacts, example_slot, examples >>

snapshot == << isBot, new_user, last_user_dacts, last_agent_dacts, agent_requestable,
               frame_CIN, slot_left_unasked, database_result, item_in_focus,
               agent_req_filled, agent_should_make_offer, agent_offer_state >>

(***************************************************************************)
(* Bounds of the model.                                                    *)
(***************************************************************************)
MaxUserDacts == 2
MaxAgentDacts == 2
MaxTags == 3
MaxResults == 2
MaxUnasked == 3
MaxStrLen == 2

(***************************************************************************)
(* Values.                                                                 *)
(***************************************************************************)
TITLE == "title"
MORE_INFO == "more_info"

ItemConstraint(slot, value) == [slot |-> slot, operator |-> "EQ", value |-> value]

DialogueAct(intent, params) == [intent |-> intent, params |-> params]

\* Python truthiness of a frame value: None and the empty string are falsy.
Falsy(value) == value = <<>>

Returned(acts, sl, cin) ==
    [exc |-> "none", acts |-> acts, slots |-> sl, CIN_slots |-> cin]

Raised(exc, sl, cin) ==
    [exc |-> exc, acts |-> <<>>, slots |-> sl, CIN_slots |-> cin]

\* random.shuffle(s): every order of s is a possible outcome.
Shuffle(s) ==
    { [i \in 1..Len(s) |-> s[p[i]]] : p \in Permutations(1..Len(s)) }

Intents(dacts) == { dacts[i].intent : i \in 1..Len(dacts) }

(***************************************************************************)
(* The handlers.                                                           *)
(***************************************************************************)
finish(sl) == { Returned(<<DialogueAct("BYE", <<>>)>>, sl, <<>>) }

no_results(sl) == { Returned(<<DialogueAct("NO_RESULTS", <<>>)>>, sl, <<>>) }

\* The keys of frame_CIN in the order the dictionary lists them.
FrameKeys == <<"title", "genres", "actors">>

\* The comprehension without its `key != Slots.TITLE.value` test.
UnfilledCINSlotsWithTitle ==
    SelectSeq(FrameKeys, LAMBDA key : Falsy(frame_CIN[key]))

UnfilledCINSlots ==
    SelectSeq(FrameKeys, LAMBDA key : Falsy(frame_CIN[key]) /\ key # TITLE)

\* The parameters of the ELICIT act of the agent_req_filled = false branch:
\* the first slot, in the shuffled order, that the frame leaves unfilled.
ElicitParams(shuffled) ==
    LET open == { i \in 1..Len(shuffled) : Falsy(frame_CIN[shuffled[i]]) } IN
    IF open = {} THEN <<>>
    ELSE LET first == CHOOSE i \in open : \A j \in open : i <= j IN
         << ItemConstraint(shuffled[first], <<>>) >>

CountResults ==
    DialogueAct("COUNT_RESULTS", << ItemConstraint("count", Len(database_result)) >>)

elicit(sl) ==
    LET CIN == UnfilledCINSlots IN
    IF Len(CIN) >= slot_left_unasked
    THEN IF agent_req_filled
         THEN { IF Len(p) = 0
                THEN Raised("IndexError", sl, p)
                ELSE Returned(<< CountResults,
                                 DialogueAct("ELICIT", << ItemConstraint(p[1], <<>>) >>) >>,
                              sl, p)
                : p \in Shuffle(CIN) }
         ELSE { Returned(<< CountResults, DialogueAct("ELICIT", ElicitParams(p)) >>,
                         p, CIN)
                : p \in Shuffle(sl) }
    ELSE { Returned(<<>>, sl, CIN) }

\* item[slot] for an item that may be None or lack the slot.
Lookup(item, slot) ==
    IF item = <<>> THEN [exc |-> "TypeError", value |-> <<>>]
    ELSE IF slot \notin DOMAIN item[1] THEN [exc |-> "KeyError", value |-> <<>>]
    ELSE [exc |-> "none", value |-> item[1][slot]]

recommend(sl) ==
    IF ~agent_should_make_offer /\ database_result = <<>>
    THEN { Raised("IndexError", sl, <<>>) }
    ELSE LET item == IF agent_should_make_offer
                     THEN item_in_focus
                     ELSE << database_result[1] >>
             title == Lookup(item, TITLE)
         IN  IF title.exc # "none"
             THEN { Raised(title.exc, sl, <<>>) }
             ELSE { Returned(<< DialogueAct("RECOMMEND",
                                            << ItemConstraint(TITLE, title.value) >>) >>,
                             sl, <<>>) }

\* The INFORM act built for one INQUIRE user act: [exc, act].
RECURSIVE InformParams(_, _)
InformParams(params, acc) ==
    IF params = <<>> THEN [exc |-> "none", params |-> acc]
    ELSE LET param == Head(params)
             got == IF param.slot # MORE_INFO
                    THEN Lookup(item_in_focus, param.slot)
                    ELSE Lookup(item_in_focus, TITLE)
         IN  IF got.exc # "none" THEN [exc |-> got.exc, params |-> acc]
             ELSE InformParams(Tail(params),
                               Append(acc, ItemConstraint(param.slot, got.value)))

Inform(user_dact) ==
    LET built == InformParams(user_dact.params, <<>>) IN
    IF built.exc # "none" THEN [exc |-> built.exc, act |-> DialogueAct("INFORM", <<>>)]
    ELSE IF Len(built.params) = 0
    THEN LET title == Lookup(item_in_focus, TITLE) IN
         IF title.exc # "none"
         THEN [exc |-> title.exc, act |-> DialogueAct("INFORM", <<>>)]
         ELSE [exc |-> "none",
               act |-> DialogueAct("INFORM", << ItemConstraint("deny", title.value) >>)]
    ELSE [exc |-> "none", act |-> DialogueAct("INFORM", built.params)]

ContinueRecommendation ==
    LET title == Lookup(item_in_focus, TITLE) IN
    IF title.exc # "none"
    THEN [exc |-> title.exc, act |-> DialogueAct("CONTINUE_RECOMMENDATION", <<>>)]
    ELSE [exc |-> "none",
          act |-> DialogueAct("CONTINUE_RECOMMENDATION",
                              << ItemConstraint(TITLE, title.value) >>)]

RECURSIVE InformLoop(_, _)
InformLoop(dacts, acc) ==
    IF dacts = <<>> THEN [exc |-> "none", acts |-> acc]
    ELSE LET user_dact == Head(dacts) IN
         IF user_dact.intent = "INQUIRE"
         THEN LET r == Inform(user_dact) IN
              IF r.exc # "none" THEN [exc |-> r.exc, acts |-> <<>>]
              ELSE InformLoop(Tail(dacts), Append(acc, r.act))
         ELSE IF user_dact.intent = "ACCEPT"
         THEN LET r == ContinueRecommendation IN
              IF r.exc # "none" THEN [exc |-> r.exc, acts |-> <<>>]
              ELSE InformLoop(Tail(dacts), Append(acc, r.act))
         ELSE InformLoop(Tail(dacts), acc)

inform_or_recommend(sl) ==
    LET r == InformLoop(last_user_dacts, <<>>) IN
    { [exc |-> r.exc, acts |-> r.acts, slots |-> sl, CIN_slots |-> <<>>] }

choose_elicit_or_recommend(sl) ==
    UNION { IF o.exc = "none" /\ o.acts = <<>>
            THEN { [r EXCEPT !.CIN_slots = o.CIN_slots] : r \in recommend(o.slots) }
            ELSE { o }
            : o \in elicit(sl) }

(***************************************************************************)
(* The dispatcher.                                                         *)
(***************************************************************************)
PossibleStates ==
    { "agent_req_filled", "agent_made_partial_offer", "agent_should_make_offer",
      "agent_made_offer", "agent_offer_no_results", "at_terminal_state" }

possible_actions_per_state(state_name, sl) ==
    CASE state_name = "agent_req_filled" -> elicit(sl)
      [] state_name = "agent_made_partial_offer" -> choose_elicit_or_recommend(sl)
      [] state_name = "agent_should_make_offer" -> recommend(sl)
      [] state_name = "agent_made_offer" -> inform_or_recommend(sl)
      [] state_name = "agent_offer_no_results" -> no_results(sl)
      [] state_name = "at_terminal_state" -> finish(sl)

\* The dispatcher returning its empty agent_dacts instead of the fallback act.
CantHelpNothing(sl, cin) == { Returned(<<>>, sl, cin) }

CantHelp(sl, cin) == { Returned(<< DialogueAct("CANT_HELP", <<>>) >>, sl, cin) }

\* The loop over the listed state names: the first handler that raises or
\* returns a non-empty list ends it.
RECURSIVE Dispatch(_, _, _)

\* The loop returning what the first listed handler gives, empty or not.
DispatchFirstOnly(state_names, sl, cin) ==
    IF state_names = <<>> THEN CantHelp(sl, cin)
    ELSE IF Head(state_names) \in PossibleStates
    THEN possible_actions_per_state(Head(state_names), sl)
    ELSE Dispatch(Tail(state_names), sl, cin)

Dispatch(state_names, sl, cin) ==
    IF state_names = <<>> THEN CantHelp(sl, cin)
    ELSE IF Head(state_names) \in PossibleStates
    THEN UNION { IF o.exc # "none" \/ o.acts # <<>>
                 THEN { o }
                 ELSE Dispatch(Tail(state_names), o.slots, o.CIN_slots)
                 : o \in possible_actions_per_state(Head(state_names), sl) }
    ELSE Dispatch(Tail(state_names), sl, cin)

\* slots = deepcopy(dialogue_state.agent_requestable): a list of its own.
\* slots = dialogue_state.agent_requestable: the caller's own list.
alias_agent_requestable == [ref |-> "caller", val |-> agent_requestable]

deepcopy_agent_requestable == [ref |-> "copy", val |-> agent_requestable]

\* The restart test without the look at the user's intents.
RestartRuleArgumentOnly(rst) == rst

RestartRule(rst) == rst \/ "RESTART" \in Intents(last_user_dacts)

\* The start test without `not dialogue_state.last_agent_dacts`.
StartRuleIgnoringAgentTurn(rst) ==
    ~rst /\ ( \/ last_user_dacts = <<>>
              \/ \A i \in 1..Len(last_user_dacts) : last_user_dacts[i].intent = "HI" )

StartRule(rst) ==
    ~rst /\ ( \/ last_user_dacts = <<>>
              \/ last_agent_dacts = <<>>
              \/ \A i \in 1..Len(last_user_dacts) : last_user_dacts[i].intent = "HI" )

\* The acknowledgement test without `or user_da.intent == UserIntents.UNK`.
PostWelcomeRuleAcknowledgeOnly ==
    /\ \E i \in 1..Len(last_user_dacts) : last_user_dacts[i].intent = "ACKNOWLEDGE"
    /\ \E i \in 1..Len(last_agent_dacts) : last_agent_dacts[i].intent = "WELCOME"

PostWelcomeRule ==
    /\ \E i \in 1..Len(last_user_dacts) :
          last_user_dacts[i].intent \in {"ACKNOWLEDGE", "UNK"}
    /\ \E i \in 1..Len(last_agent_dacts) : last_agent_dacts[i].intent = "WELCOME"

ElicitFirstSlot(sl) ==
    DialogueAct("ELICIT", << ItemConstraint(sl[1], <<>>) >>)

Welcome ==
    DialogueAct("WELCOME", << ItemConstraint("new_user", new_user),
                              ItemConstraint("is_bot", isBot) >>)

next_action(rst, sl) ==
    IF RestartRule(rst)
    THEN IF sl = <<>>
         THEN { Raised("IndexError", sl, <<>>) }
         ELSE { Returned(<< DialogueAct("RESTART", <<>>), ElicitFirstSlot(sl) >>, sl, <<>>) }
    ELSE IF StartRule(rst)
    THEN { Returned(<< Welcome >>, sl, <<>>) }
    ELSE IF PostWelcomeRule
    THEN IF sl = <<>>
         THEN { Raised("IndexError", sl, <<>>) }
         ELSE { Returned(<< ElicitFirstSlot(sl) >>, sl, <<>>) }
    ELSE Dispatch(agent_offer_state, sl, <<>>)

(***************************************************************************)
(* The example aggregator.                                                 *)
(***************************************************************************)
MaxExamples == 20

\* s.split(sep): the fragments of s between the separators.
RECURSIVE Split(_, _, _)
Split(s, sep, cur) ==
    IF s = <<>> THEN << cur >>
    ELSE IF Head(s) = sep THEN << cur >> \o Split(Tail(s), sep, <<>>)
    ELSE Split(Tail(s), sep, Append(cur, Head(s)))

RECURSIVE LStrip(_)
LStrip(s) == IF s # <<>> /\ Head(s) = " " THEN LStrip(Tail(s)) ELSE s

RECURSIVE RStrip(_)
RStrip(s) ==
    IF s # <<>> /\ s[Len(s)] = " " THEN RStrip(SubSeq(s, 1, Len(s) - 1)) ELSE s

\* s.strip()
Strip(s) == RStrip(LStrip(s))

\* len(s.split()): the number of maximal runs of non-blank characters.
WordCount(s) ==
    Cardinality({ i \in 1..Len(s) : s[i] # " " /\ (i = 1 \/ s[i - 1] = " ") })

\* f"'{x}'"
Quote(x) == << "'" >> \o x \o << "'" >>

Range(s) == { s[i] : i \in 1..Len(s) }

\* [f"'{x}'" for x in temp_result if x not in examples]
RECURSIVE Quoted(_, _)
Quoted(temp_result, seen) ==
    IF temp_result = <<>> THEN <<>>
    ELSE IF Head(temp_result) \notin Range(seen)
    THEN << Quote(Head(temp_result)) >> \o Quoted(Tail(temp_result), seen)
    ELSE Quoted(Tail(temp_result), seen)

RECURSIVE StripAll(_)
StripAll(fragments) ==
    IF fragments = <<>> THEN <<>>
    ELSE << Strip(Head(fragments)) >> \o StripAll(Tail(fragments))

\* The loop over database_result: [exc, examples].
RECURSIVE Collect(_, _, _)
Collect(results, sl, acc) ==
    IF results = <<>> THEN [exc |-> "none", examples |-> acc]
    ELSE IF sl \notin DOMAIN Head(results) THEN [exc |-> "KeyError", examples |-> acc]
    ELSE LET temp_result == StripAll(Split(Head(results)[sl], ",", <<>>))
             extended == acc \o Quoted(temp_result, acc)
         IN  IF Cardinality(Range(extended)) > MaxExamples
             THEN [exc |-> "none", examples |-> extended]
             ELSE Collect(Tail(results), sl, extended)

\* " or ".join(random.sample(pool, 2))
SampleTwo(pool) ==
    { pair[1] \o << " ", "o", "r", " " >> \o pair[2] :
        pair \in { q \in pool \X pool : q[1] # q[2] } }

ExampleValue(exc, isNone, value) == [exc |-> exc, none |-> isNone, value |-> value]

\* The aggregator without `examples = list(set(examples))`: the list keeps
\* the copies that later results added.
generate_examples_keeping_copies(results, sl) ==
    LET got == Collect(results, sl, <<>>) IN
    IF got.exc # "none" THEN { ExampleValue(got.exc, FALSE, <<>>) }
    ELSE IF got.examples = <<>> THEN { ExampleValue("none", TRUE, <<>>) }
    ELSE IF Len(got.examples) = 1
    THEN { ExampleValue("none", FALSE, got.examples[1]) }
    ELSE { ExampleValue("none", FALSE,
                        got.examples[pair[1]] \o << " ", "o", "r", " " >>
                            \o got.examples[pair[2]]) :
             pair \in { q \in (1..Len(got.examples)) \X (1..Len(got.examples)) :
                           q[1] # q[2] } }

generate_examples(results, sl) ==
    LET got == Collect(results, sl, <<>>) IN
    IF got.exc # "none" THEN { ExampleValue(got.exc, FALSE, <<>>) }
    ELSE IF got.examples = <<>> THEN { ExampleValue("none", TRUE, <<>>) }
    ELSE LET distinct == Range(got.examples)
             sub_example == { x \in distinct : WordCount(x) = 2 }
         IN  IF Cardinality(distinct) = 1
             THEN { ExampleValue("none", FALSE, x) : x \in distinct }
             ELSE IF Cardinality(sub_example) >= 2
             THEN { ExampleValue("none", FALSE, v) : v \in SampleTwo(sub_example) }
             ELSE { ExampleValue("none", FALSE, v) : v \in SampleTwo(distinct) }

(***************************************************************************)
(* The snapshots the specifications start from.  They are well-formed:     *)
(* agent_requestable is never empty and names only keys of frame_CIN, and  *)
(* every item record has a title.                                          *)
(***************************************************************************)
SeqsUpTo(S, n) == UNION { [1..k -> S] : k \in 0..n }

Distinct(s) == \A i, j \in 1..Len(s) : i # j => s[i] # s[j]

UserAct(intent, param_slots) ==
    DialogueAct(intent, [i \in 1..Len(param_slots) |-> ItemConstraint(param_slots[i], <<>>)])

AgentAct(intent) == DialogueAct(intent, <<>>)

NoCall ==
    /\ called = "none"
    /\ restart = FALSE
    /\ slots = <<>>
    /\ CIN_slots = <<>>
    /\ agent_dacts = [exc |-> "none", acts |-> <<>>]
    /\ example_slot = "none"
    /\ examples = ExampleValue("none", TRUE, <<>>)

Movie == [title |-> << "t" >>, genres |-> << "g" >>]

OpenFrame == [title |-> <<>>, genres |-> <<>>, actors |-> <<>>]

\* Conversation openings: every short user turn and agent turn.
StartUserActs ==
    { UserAct(i, <<>>) :
        i \in {"RESTART", "HI", "ACKNOWLEDGE", "UNK", "INQUIRE", "ACCEPT", "REJECT"} }

InitStart ==
    /\ isBot \in BOOLEAN
    /\ new_user \in BOOLEAN
    /\ last_user_dacts \in SeqsUpTo(StartUserActs, MaxUserDacts)
    /\ last_agent_dacts \in SeqsUpTo({AgentAct("WELCOME"), AgentAct("ELICIT")}, MaxAgentDacts)
    /\ agent_requestable \in { << "genres", "actors" >>, << "actors" >> }
    /\ frame_CIN = OpenFrame
    /\ slot_left_unasked = 2
    /\ database_result = << Movie >>
    /\ item_in_focus = << Movie >>
    /\ agent_req_filled = FALSE
    /\ agent_should_make_offer = FALSE
    /\ agent_offer_state = << "at_terminal_state" >>
    /\ NoCall

\* Mid-conversation turns: every short list of active state names, in any
\* order, with handlers that answer and handlers that decline.
StateNames == PossibleStates \cup {"agent_can_lookup"}

TableUserDacts ==
    { << UserAct("REJECT", <<>>) >>,
      << UserAct("INQUIRE", << "genres" >>) >>,
      << UserAct("ACCEPT", <<>>) >>,
      << UserAct("INQUIRE", << MORE_INFO >>), UserAct("ACCEPT", <<>>) >> }

InitTable ==
    /\ isBot = FALSE
    /\ new_user = TRUE
    /\ last_user_dacts \in TableUserDacts
    /\ last_agent_dacts = << AgentAct("ELICIT") >>
    /\ agent_requestable = << "genres", "actors" >>
    /\ frame_CIN = OpenFrame
    /\ slot_left_unasked \in {2, 3}
    /\ database_result \in { <<>>, << Movie >> }
    /\ item_in_focus \in { <<>>, << Movie >> }
    /\ agent_req_filled \in BOOLEAN
    /\ agent_should_make_offer \in BOOLEAN
    /\ agent_offer_state \in { s \in SeqsUpTo(StateNames, MaxTags) : Distinct(s) }
    /\ NoCall

Init == InitStart \/ InitTable

\* Snapshots for the elicit handler: every frame, every list of requestable
\* slots, every threshold.
FrameSlots == { FrameKeys[i] : i \in 1..Len(FrameKeys) }

InitElicit ==
    /\ isBot = FALSE
    /\ new_user = TRUE
    /\ last_user_dacts = << UserAct("REJECT", <<>>) >>
    /\ last_agent_dacts = << AgentAct("ELICIT") >>
    /\ agent_requestable \in { s \in SeqsUpTo(FrameSlots, Len(FrameKeys)) :
                                  s # <<>> /\ Distinct(s) }
    /\ frame_CIN \in [FrameSlots -> { <<>>, << "v" >> }]
    /\ slot_left_unasked \in 0..MaxUnasked
    /\ database_result \in SeqsUpTo({Movie}, MaxResults)
    /\ item_in_focus = <<>>
    /\ agent_req_filled \in BOOLEAN
    /\ agent_should_make_offer = FALSE
    /\ agent_offer_state = << "agent_req_filled" >>
    /\ NoCall

\* Snapshots for the inform-or-recommend handler: user turns that inquire
\* about slots the focused item has and slots it lacks.
InformUserActs ==
    { UserAct("INQUIRE", p) :
        p \in { <<>>, << "genres" >>, << "year" >>, << MORE_INFO >>,
                << "genres", MORE_INFO >>, << "year", "genres" >> } }
    \cup { UserAct("ACCEPT", <<>>), UserAct("REJECT", <<>>) }

InitInform ==
    /\ isBot = FALSE
    /\ new_user = TRUE
    /\ last_user_dacts \in SeqsUpTo(InformUserActs, MaxUserDacts)
    /\ last_agent_dacts = << AgentAct("RECOMMEND") >>
    /\ agent_requestable = << "genres", "actors" >>
    /\ frame_CIN = OpenFrame
    /\ slot_left_unasked = 2
    /\ database_result = << Movie >>
    /\ item_in_focus \in { <<>>, << Movie >>, << [title |-> << "t" >>] >> }
    /\ agent_req_filled = FALSE
    /\ agent_should_make_offer = FALSE
    /\ agent_offer_state = << "agent_made_offer" >>
    /\ NoCall

\* Snapshots for the example aggregator: results whose genres value is any
\* short string of letters, blanks and commas.
Alphabet == { "a", " ", "," }

InitExamples ==
    /\ isBot = FALSE
    /\ new_user = TRUE
    /\ last_user_dacts = << UserAct("REJECT", <<>>) >>
    /\ last_agent_dacts = << AgentAct("ELICIT") >>
    /\ agent_requestable = << "genres", "actors" >>
    /\ frame_CIN = OpenFrame
    /\ slot_left_unasked = 2
    /\ database_result \in
          SeqsUpTo({ [genres |-> v] : v \in SeqsUpTo(Alphabet, MaxStrLen) }, MaxResults)
    /\ item_in_focus = <<>>
    /\ agent_req_filled = FALSE
    /\ agent_should_make_offer = FALSE
    /\ agent_offer_state = <<>>
    /\ NoCall

(***************************************************************************)
(* The operations.                                                         *)
(***************************************************************************)
\* A call of a handler with the list sl: whatever the handler does to the
\* list reaches the caller's agent_requestable only if sl is that very list.
Call(name, sl, outcomes) ==
    \E o \in outcomes :
        /\ called' = name
        /\ slots' = o.slots
        /\ CIN_slots' = o.CIN_slots
        /\ agent_dacts' = [exc |-> o.exc, acts |-> o.acts]
        /\ agent_requestable' = IF sl.ref = "copy" THEN agent_requestable ELSE o.slots
        /\ UNCHANGED << isBot, new_user, last_user_dacts, last_agent_dacts, frame_CIN,
                        slot_left_unasked, database_result, item_in_focus,
                        agent_req_filled, agent_should_make_offer, agent_offer_state,
                        example_slot, examples >>

NextAction ==
    \E rst \in BOOLEAN :
        LET sl == deepcopy_agent_requestable IN
        /\ restart' = rst
        /\ Call("next_action", sl, next_action(rst, sl.val))

Elicit ==
    LET sl == deepcopy_agent_requestable IN
    /\ UNCHANGED restart
    /\ Call("elicit", sl, elicit(sl.val))

InformOrRecommend ==
    LET sl == deepcopy_agent_requestable IN
    /\ UNCHANGED restart
    /\ Call("inform_or_recommend", sl, inform_or_recommend(sl.val))

GenerateExamples ==
    \E sl \in {"genres", "actors"} :
        \E value \in generate_examples(database_result, sl) :
            /\ called' = "_generate_examples"
            /\ example_slot' = sl
            /\ examples' = value
            /\ UNCHANGED << snapshot, restart, slots, CIN_slots, agent_dacts >>

Next == NextAction

Spec == Init /\ [][Next]_vars

SpecElicit == InitElicit /\ [][Elicit]_vars

SpecInform == InitInform /\ [][InformOrRecommend]_vars

SpecExamples == InitExamples /\ [][GenerateExamples]_vars

(***************************************************************************)
(* Properties of next_action.                                              *)
(***************************************************************************)
ReturnedActs == agent_dacts.acts

NormalReturn(name) == called = name /\ agent_dacts.exc = "none"

ElicitOf(s) == [intent |-> "ELICIT",
                params |-> << [slot |-> s, operator |-> "EQ", value |-> <<>>] >>]

Bare(intent) == [intent |-> intent, params |-> <<>>]

UserAsksRestart == \E i \in 1..Len(last_user_dacts) : last_user_dacts[i].intent = "RESTART"

\* C1: a call with restart = true, or on a user turn that carries the RESTART
\* intent, returns exactly [RESTART with no params, ELICIT(slot0 = "")], slot0
\* the first entry of agent_requestable, whatever the rest of the snapshot is.
C1_RestartPair ==
    (called = "next_action" /\ (restart \/ UserAsksRestart))
        => /\ agent_dacts.exc = "none"
           /\ ReturnedActs = << Bare("RESTART"), ElicitOf(agent_requestable[1]) >>

\* restart = true on a snapshot that would otherwise open the conversation.
C1_Witness ==
    /\ called = "next_action" /\ restart
    /\ last_user_dacts = <<>>
    /\ Len(last_agent_dacts) = 2
    /\ Len(ReturnedActs) = 2

WelcomeAct ==
    [intent |-> "WELCOME",
     params |-> << [slot |-> "new_user", operator |-> "EQ", value |-> new_user],
                   [slot |-> "is_bot", operator |-> "EQ", value |-> isBot] >>]

OnlyWelcome ==
    /\ agent_dacts.exc = "none"
    /\ Len(ReturnedActs) = 1
    /\ ReturnedActs[1].intent = "WELCOME"
    /\ ReturnedActs[1] = WelcomeAct

\* C2 as stated: an empty last_user_dacts or an empty last_agent_dacts always
\* yields exactly one act, WELCOME with the configured flags.
C2_Original ==
    (called = "next_action" /\ (last_user_dacts = <<>> \/ last_agent_dacts = <<>>))
        => OnlyWelcome

\* C2 as amended: with restart = false and no user act carrying the RESTART
\* intent, an empty last_user_dacts or an empty last_agent_dacts yields exactly
\* one act, WELCOME with (new_user = configured new_user), (is_bot = configured
\* isBot), whatever the other act list holds.
C2_StartWelcome ==
    (/\ called = "next_action" /\ ~restart /\ ~UserAsksRestart
     /\ (last_user_dacts = <<>> \/ last_agent_dacts = <<>>))
        => OnlyWelcome

\* No agent turn yet, and a user turn that is neither empty nor a greeting.
C2_Witness ==
    /\ called = "next_action" /\ ~restart
    /\ last_agent_dacts = <<>>
    /\ Len(last_user_dacts) = 2
    /\ \A i \in 1..2 : last_user_dacts[i].intent \in {"ACCEPT", "INQUIRE"}
    /\ isBot /\ ~new_user
    /\ OnlyWelcome

\* C8: with restart = false, a user turn made of ACKNOWLEDGE or UNKNOWN acts
\* after an agent turn that contained WELCOME returns exactly
\* [ELICIT(slot0 = "")]: neither the restart rule nor the start rule takes it,
\* and the active state names are not consulted.
C8_AcknowledgeElicits ==
    (/\ called = "next_action" /\ ~restart
     /\ last_user_dacts # <<>>
     /\ \A i \in 1..Len(last_user_dacts) :
           last_user_dacts[i].intent \in {"ACKNOWLEDGE", "UNK"}
     /\ \E i \in 1..Len(last_agent_dacts) : last_agent_dacts[i].intent = "WELCOME")
        => /\ agent_dacts.exc = "none"
           /\ ReturnedActs = << ElicitOf(agent_requestable[1]) >>

\* An UNKNOWN user act after an agent turn of two acts, one of them WELCOME.
C8_Witness ==
    /\ called = "next_action" /\ ~restart
    /\ Len(last_user_dacts) = 1 /\ last_user_dacts[1].intent = "UNK"
    /\ Len(last_agent_dacts) = 2
    /\ last_agent_dacts[1].intent = "ELICIT" /\ last_agent_dacts[2].intent = "WELCOME"
    /\ agent_offer_state # <<>>
    /\ ReturnedActs = << ElicitOf(agent_requestable[1]) >>

(***************************************************************************)
(* Properties of the state-table dispatch.                                 *)
(***************************************************************************)
DispatchReached ==
    /\ called = "next_action"
    /\ ~restart /\ ~UserAsksRestart
    /\ last_user_dacts # <<>> /\ last_agent_dacts # <<>>
    /\ \E i \in 1..Len(last_user_dacts) : last_user_dacts[i].intent # "HI"
    /\ ~ ( /\ \E i \in 1..Len(last_user_dacts) :
                 last_user_dacts[i].intent \in {"ACKNOWLEDGE", "UNK"}
           /\ \E i \in 1..Len(last_agent_dacts) : last_agent_dacts[i].intent = "WELCOME" )

Priority ==
    << "agent_req_filled", "agent_made_partial_offer", "agent_should_make_offer",
       "agent_made_offer", "agent_offer_no_results", "at_terminal_state" >>

\* The non-empty act lists the handler of a state name can return here.
Answers(state_name) ==
    { o.acts : o \in { h \in possible_actions_per_state(state_name, agent_requestable) :
                         h.exc = "none" /\ h.acts # <<>> } }

\* The listed state names that have a handler, and those whose handler answers.
Handled == { i \in 1..Len(agent_offer_state) : agent_offer_state[i] \in PossibleStates }

Answering == { i \in Handled : Answers(agent_offer_state[i]) # {} }

FirstListed == agent_offer_state[CHOOSE i \in Answering : \A j \in Answering : i <= j]

FirstByPriority ==
    LET ranks == { k \in 1..Len(Priority) :
                     \E i \in Answering : agent_offer_state[i] = Priority[k] }
    IN  Priority[CHOOSE k \in ranks : \A m \in ranks : k <= m]

ListedInPriorityOrder ==
    \A i, j \in Handled :
        i < j => \E k, m \in 1..Len(Priority) :
                    /\ k < m
                    /\ Priority[k] = agent_offer_state[i]
                    /\ Priority[m] = agent_offer_state[j]

AllDecline ==
    \A i \in Handled :
        \A o \in possible_actions_per_state(agent_offer_state[i], agent_requestable) :
            o.exc = "none" /\ o.acts = <<>>

\* C7: at state-table dispatch, a snapshot that lists no state name, only names
\* without a handler, or only names whose handlers return the empty list gets
\* exactly [CANT_HELP] with no params; next_action never returns an empty list.
C7_FallbackCantHelp ==
    /\ (DispatchReached /\ AllDecline)
          => (agent_dacts.exc = "none" /\ ReturnedActs = << Bare("CANT_HELP") >>)
    /\ NormalReturn("next_action") => ReturnedActs # <<>>

\* Two listed handlers, both declining.
C7_Witness ==
    /\ DispatchReached /\ AllDecline
    /\ Cardinality(Handled) >= 2
    /\ ReturnedActs = << Bare("CANT_HELP") >>

\* C6: a next_action call, through any path and with any shuffle outcome,
\* leaves the caller's frame_CIN, database_result and agent_requestable as they
\* were, in content and order; only the local lists are reordered.
C6_SnapshotUntouched ==
    [][ called' = "next_action"
          => /\ frame_CIN' = frame_CIN
             /\ database_result' = database_result
             /\ agent_requestable' = agent_requestable ]_vars

\* The elicit handler has reordered next_action's own list.
C6_Witness ==
    /\ NormalReturn("next_action")
    /\ Len(slots) = Len(agent_requestable)
    /\ slots # agent_requestable
    /\ Len(ReturnedActs) = 2

(***************************************************************************)
(* Properties of the elicit handler.                                       *)
(***************************************************************************)
OverThreshold ==
    Cardinality({ key \in DOMAIN frame_CIN : frame_CIN[key] = <<>> /\ key # "title" })
        >= slot_left_unasked

\* C4: over the threshold, with agent_req_filled = false and no requestable
\* slot unfilled in frame_CIN, elicit returns exactly one act, COUNT_RESULTS
\* with count = len(database_result), and no ELICIT act.
C4_OnlyCountResults ==
    (/\ called = "elicit" /\ OverThreshold /\ ~agent_req_filled
     /\ \A i \in 1..Len(agent_requestable) : frame_CIN[agent_requestable[i]] # <<>>)
        => /\ agent_dacts.exc = "none"
           /\ Len(ReturnedActs) = 1
           /\ ReturnedActs[1].intent = "COUNT_RESULTS"
           /\ ReturnedActs[1].params[1].value = Len(database_result)

ElicitedSlots ==
    UNION { { ReturnedActs[i].params[k].slot : k \in 1..Len(ReturnedActs[i].params) } :
              i \in { n \in 1..Len(ReturnedActs) : ReturnedActs[n].intent = "ELICIT" } }

\* C10 as stated: over the threshold, in both branches and for any
\* agent_requestable, no ELICIT act of elicit names the title slot, and every
\* elicited slot is unfilled in frame_CIN.
C10_Original ==
    (NormalReturn("elicit") /\ OverThreshold)
        => \A s \in ElicitedSlots : s # "title" /\ frame_CIN[s] = <<>>

\* C10 as amended: over the threshold every elicited slot is unfilled in
\* frame_CIN, and the title slot is never elicited in the agent_req_filled =
\* true branch; in the agent_req_filled = false branch it is elicited only when
\* agent_requestable itself holds the title slot.
C10_TitleOnlyIfRequestable ==
    (NormalReturn("elicit") /\ OverThreshold)
        => \A s \in ElicitedSlots :
              /\ frame_CIN[s] = <<>>
              /\ s = "title" =>
                    (~agent_req_filled
                     /\ \E i \in 1..Len(agent_requestable) : agent_requestable[i] = "title")

\* The agent_req_filled = true branch with the title unfilled and requestable.
C10_Witness ==
    /\ NormalReturn("elicit") /\ OverThreshold
    /\ agent_req_filled
    /\ frame_CIN["title"] = <<>>
    /\ agent_requestable = << "title" >>
    /\ ElicitedSlots # {}

(***************************************************************************)
(* Properties of the inform-or-recommend handler.                          *)
(***************************************************************************)
RequestsNothingKnown(user_dact) ==
    \A k \in 1..Len(user_dact.params) :
        user_dact.params[k].slot # "more_info"
            => user_dact.params[k].slot \notin DOMAIN item_in_focus[1]

\* C5: for every INQUIRE user act whose requested slots (other than more_info)
\* are all absent from item_in_focus, inform_or_recommend does not fail and
\* appends one INFORM act with exactly one constraint, slot "deny", value the
\* title of item_in_focus.
C5_InformDeny ==
    (/\ called = "inform_or_recommend"
     /\ item_in_focus # <<>>
     /\ \A i \in 1..Len(last_user_dacts) :
           last_user_dacts[i].intent = "INQUIRE" /\ RequestsNothingKnown(last_user_dacts[i]))
        => /\ agent_dacts.exc = "none"
           /\ Len(ReturnedActs) = Len(last_user_dacts)
           /\ \A i \in 1..Len(ReturnedActs) :
                 /\ ReturnedActs[i].intent = "INFORM"
                 /\ Len(ReturnedActs[i].params) = 1
                 /\ ReturnedActs[i].params[1].slot = "deny"
                 /\ ReturnedActs[i].params[1].value = item_in_focus[1]["title"]

(***************************************************************************)
(* Properties of the example aggregator.                                   *)
(***************************************************************************)
\* The trimmed comma-separated fragments of the slot across all the results.
Fragments ==
    UNION { { Strip(f) : f \in Range(Split(database_result[i][example_slot], ",", <<>>)) } :
              i \in 1..Len(database_result) }

SingleFragment ==
    /\ called = "_generate_examples"
    /\ database_result # <<>>
    /\ \A i \in 1..Len(database_result) : example_slot \in DOMAIN database_result[i]
    /\ Cardinality(Fragments) = 1

====
